---- MODULE Spec2Model ----
(***************************************************************************)
(* PII_Anonymizer: span substitution (anonymize.py, use_model.py) and its  *)
(* reversal (deanonymize.py).                                              *)
(*                                                                         *)
(* Text is a sequence of one-character strings, so that offsets, slices,   *)
(* str.replace and the placeholder regular expression are computed         *)
(* character by character, as Python computes them.  Offsets are Python's  *)
(* (0-based, half-open); sequences are 1-based, so text[i] of Python is    *)
(* text[i+1] here.                                                         *)
(***************************************************************************)
EXTENDS Integers, Sequences, FiniteSets, TLC

VARIABLES
    pc,               \* position of the caller: "idle", "anonymized", "restoring", "done", "failed"
    cls,              \* class of the anonymizer instance: "Anonymizer" or "PIIAnonymizer"
    entity_counters,  \* self.entity_counters of the instance: base_label -> count
    file,             \* the document passed to the last anonymization call
    custom_spans,     \* _find_custom_spans(file) of that call
    label_spans,      \* _find_label_spans(file) of that call
    ents,             \* doc.ents of that call
    start_counters,   \* entity_counters when the substitution loop of that call began
    all_spans,        \* all_spans (anonymize_data) or entities (anonymize_text), as sorted
    assigned,         \* the placeholder of each iteration, in iteration order
    anonymized_doc,   \* the text the call returned
    mapping,          \* original -> placeholder table of that call (ordered pairs)
    entry,            \* the entry point of that call: anonymize_data, anonymize_text, api_anonymize
    outcome,          \* how it ended: "returned", "raised"; the HTTP status for api_anonymize
    reset_arg,        \* whether that call was to reset the counters (anonymize_data always is)
    prior_counters,   \* self.entity_counters when that call began
    nlp_raised,       \* whether the NER model raised an error in that call
    d_text,           \* deanonymize: anonymized_text argument
    d_mapping,        \* deanonymize: mapping argument (ordered pairs <<original, placeholder>>)
    placeholders,     \* deanonymize: the part of re.findall's list not yet iterated
    result,           \* deanonymize: result
    warnings,         \* deanonymize: the placeholders of the "Warning:" lines printed
    labels_seen,      \* normalization: the labels of two spans, as the detectors gave them
    bases_made,       \* normalization: the base_label the loop made of each
    threads,          \* concurrent calls of anonymize_data: each thread's position and locals
    self_doc,         \* concurrent calls: self.doc.ents of the instance the threads share
    current_mapping,  \* PIIProcessor.current_mapping: None or a table
    mapping_file,     \* PIIProcessor.mapping_file: None or a file name
    fs,               \* the files: file name -> None (no such file) or its text
    saved,            \* file name -> the table save_mapping wrote there last, None if the
                      \* file is not as save_mapping left it
    call,             \* the last call on the processor or on deanonymize.py: its arguments
    ret,              \* what that call gave its caller: value returned or exception, lines printed
    uploads,          \* POST /api/upload: each request thread's position and locals
    upload_folder     \* the files of app.config['UPLOAD_FOLDER']: pairs <<file name, content>>

vars == <<pc, cls, entity_counters, file, custom_spans, label_spans, ents,
          start_counters, all_spans, assigned, anonymized_doc, mapping,
          entry, outcome, reset_arg, prior_counters, nlp_raised,
          d_text, d_mapping, placeholders, result, warnings,
          labels_seen, bases_made, threads, self_doc,
          current_mapping, mapping_file, fs, saved, call, ret,
          uploads, upload_folder>>

anonVars == <<file, custom_spans, label_spans, ents, start_counters, all_spans,
              assigned, anonymized_doc, mapping,
              entry, outcome, reset_arg, prior_counters, nlp_raised>>

deanonVars == <<d_text, d_mapping, placeholders, result, warnings>>

labelVars == <<labels_seen, bases_made>>

concVars == <<threads, self_doc>>

procVars == <<current_mapping, mapping_file, fs, saved, call, ret>>

upVars == <<uploads, upload_folder>>

\* the variables the anonymizers and deanonymize leave alone
extVars == <<labelVars, concVars, procVars, upVars>>

\* the variables of the anonymizers and deanonymize
coreVars == <<pc, cls, entity_counters, anonVars, deanonVars>>

-----------------------------------------------------------------------------
(* Characters and strings *)

Upper == {"A","B","C","D","E","F","G","H","I","J","K","L","M",
          "N","O","P","Q","R","S","T","U","V","W","X","Y","Z"}

DigitChars == <<"0","1","2","3","4","5","6","7","8","9">>

Digits == {DigitChars[i] : i \in 1..10}

Min(a, b) == IF a < b THEN a ELSE b

\* s[a:b] of Python for 0 <= a, 0 <= b: clamped to the length of s
Slice(s, a, b) ==
    LET hi == Min(b, Len(s))
    IN  IF a >= hi THEN << >> ELSE [i \in 1..(hi - a) |-> s[a + i]]

\* str(n) for n >= 0: the decimal digits of n
RECURSIVE Str(_)
Str(n) == IF n < 10 THEN <<DigitChars[n + 1]>>
          ELSE Str(n \div 10) \o <<DigitChars[(n % 10) + 1]>>

\* old occurs in s at 1-based position i
OccursAt(s, i, old) ==
    /\ i + Len(old) - 1 <= Len(s)
    /\ \A k \in 1..Len(old) : s[i + k - 1] = old[k]

\* str.replace scanning from 1-based position i: where the whole of old
\* occurs it is replaced and the scan goes on behind it
RECURSIVE ReplaceFrom(_, _, _, _)
ReplaceFrom(s, i, old, new) ==
    IF i > Len(s) THEN << >>
    ELSE IF OccursAt(s, i, old)
         THEN new \o ReplaceFrom(s, i + Len(old), old, new)
         ELSE <<s[i]>> \o ReplaceFrom(s, i + 1, old, new)

\* A replace that matches old without its last character (its closing bracket)
\* and then skips what is left of the bracketed token
RECURSIVE ReplacePrefixFrom(_, _, _, _)
ReplacePrefixFrom(s, i, old, new) ==
    IF i > Len(s) THEN << >>
    ELSE IF OccursAt(s, i, Slice(old, 0, Len(old) - 1))
         THEN new \o ReplacePrefixFrom(s, i + Len(old), old, new)
         ELSE <<s[i]>> \o ReplacePrefixFrom(s, i + 1, old, new)

ReplacePrefix(s, old, new) == ReplacePrefixFrom(s, 1, old, new)

\* s.replace(old, new) for a non-empty old: every non-overlapping occurrence,
\* found left to right
Replace(s, old, new) == ReplaceFrom(s, 1, old, new)

-----------------------------------------------------------------------------
(* deanonymize.py: the placeholder pattern \[[A-Z]+\d+\] *)

\* number of consecutive characters of class cs in text from 1-based position i
RECURSIVE Run(_, _, _)
Run(text, i, cs) ==
    IF i <= Len(text) /\ text[i] \in cs THEN 1 + Run(text, i + 1, cs) ELSE 0

\* length of the match of \[[A-Z]+\d+\] at 1-based position i, 0 if none.
\* The two classes are disjoint and the bracket is in neither, so the greedy
\* match is the only one.
MatchAt(text, i) ==
    IF i <= Len(text) /\ text[i] = "["
    THEN LET u == Run(text, i + 1, Upper)
             d == Run(text, i + 1 + u, Digits)
             close == i + 1 + u + d
         IN  IF u >= 1 /\ d >= 1 /\ close <= Len(text) /\ text[close] = "]"
             THEN u + d + 2 ELSE 0
    ELSE 0

\* re.findall(placeholder_pattern, text) scanning from 1-based position i:
\* the non-overlapping matches, left to right, duplicates included
RECURSIVE FindAllFrom(_, _)
FindAllFrom(text, i) ==
    IF i > Len(text) THEN << >>
    ELSE LET m == MatchAt(text, i)
         IN  IF m > 0 THEN <<Slice(text, i - 1, i - 1 + m)>> \o FindAllFrom(text, i + m)
             ELSE FindAllFrom(text, i + 1)

FindAll(text) == FindAllFrom(text, 1)

\* the keys of a table kept as ordered pairs <<key, value>>
Keys(m) == {m[i][1] : i \in 1..Len(m)}

Values(m) == {m[i][2] : i \in 1..Len(m)}

\* {placeholder: original for original, placeholder in mapping.items()}:
\* of two originals with one placeholder the later item wins
reverse_mapping(m) ==
    [p \in Values(m) |->
        LET last == CHOOSE i \in 1..Len(m) :
                        /\ m[i][2] = p
                        /\ \A j \in 1..Len(m) : m[j][2] = p => j <= i
        IN  m[last][1]]

\* An iteration that deletes a placeholder it cannot resolve
StepResultDropping(res, placeholder, rev) ==
    IF placeholder \in DOMAIN rev
    THEN Replace(res, placeholder, rev[placeholder])
    ELSE Replace(res, placeholder, << >>)

\* one iteration of the loop: result after it
StepResult(res, placeholder, rev) ==
    IF placeholder \in DOMAIN rev
    THEN Replace(res, placeholder, rev[placeholder])
    ELSE res

\* one iteration of the loop: the warnings printed after it
StepWarnings(w, placeholder, rev) ==
    IF placeholder \in DOMAIN rev THEN w ELSE Append(w, placeholder)

-----------------------------------------------------------------------------
(* Labels: a label is the sequence of its characters *)

L_PERSON == <<"P","E","R","S","O","N">>

L_ORG == <<"O","R","G">>

L_PHONE == <<"P","H","O","N","E">>

L_BANK_ACCOUNT == <<"B","A","N","K","_","A","C","C","O","U","N","T">>

L_DOB == <<"D","O","B">>

\* Anonymizer.label_mapping
Anonymizer_label_mapping ==
       (<<"P","E","R","S","O","N">> :> <<"P","E","R","S","O","N">>)
    @@ (<<"C","A","R","D","I","N","A","L">> :> <<"N","U","M","B","E","R">>)
    @@ (<<"F","A","C">> :> <<"A","D","D","R","E","S","S">>)
    @@ (<<"G","P","E">> :> <<"L","O","C","A","T","I","O","N">>)
    @@ (<<"O","R","G">> :> <<"O","R","G","A","N","I","Z","A","T","I","O","N">>)
    @@ (<<"M","O","N","E","Y">> :> <<"M","O","N","E","Y">>)
    @@ (<<"P","H","O","N","E">> :> <<"P","H","O","N","E">>)
    @@ (<<"B","A","N","K","_","A","C","C","O","U","N","T">> :> <<"B","A","N","K","_","A","C","C","O","U","N","T">>)
    @@ (<<"R","O","U","T","I","N","G","_","N","U","M","B","E","R">> :> <<"R","O","U","T","I","N","G","_","N","U","M","B","E","R">>)
    @@ (<<"S","S","N">> :> <<"S","S","N">>)
    @@ (<<"Z","I","P">> :> <<"Z","I","P">>)
    @@ (<<"C","R","E","D","I","T","_","C","A","R","D">> :> <<"C","R","E","D","I","T","_","C","A","R","D">>)

\* PIIAnonymizer.label_mapping
PIIAnonymizer_label_mapping ==
       (<<"P","E","R","S","O","N">> :> <<"P","E","R","S","O","N">>)
    @@ (<<"E","M","A","I","L">> :> <<"E","M","A","I","L">>)
    @@ (<<"P","H","O","N","E">> :> <<"P","H","O","N","E">>)
    @@ (<<"S","S","N">> :> <<"S","S","N">>)
    @@ (<<"C","R","E","D","I","T","_","C","A","R","D">> :> <<"C","R","E","D","I","T","_","C","A","R","D">>)
    @@ (<<"R","O","U","T","I","N","G","_","N","U","M","B","E","R">> :> <<"R","O","U","T","I","N","G","_","N","U","M","B","E","R">>)
    @@ (<<"B","A","N","K","_","A","C","C","O","U","N","T">> :> <<"B","A","N","K","_","A","C","C","O","U","N","T">>)
    @@ (<<"A","D","D","R","E","S","S">> :> <<"A","D","D","R","E","S","S">>)
    @@ (<<"Z","I","P","_","C","O","D","E">> :> <<"Z","I","P">>)
    @@ (<<"D","O","B">> :> <<"D","A","T","E","_","O","F","_","B","I","R","T","H">>)
    @@ (<<"R","E","L","A","T","I","O","N","S","H","I","P">> :> <<"R","E","L","A","T","I","O","N","S","H","I","P">>)
    @@ (<<"O","R","G","A","N","I","Z","A","T","I","O","N">> :> <<"O","R","G","A","N","I","Z","A","T","I","O","N">>)
    @@ (<<"J","O","B","_","T","I","T","L","E">> :> <<"J","O","B","_","T","I","T","L","E">>)
    @@ (<<"S","A","L","A","R","Y">> :> <<"S","A","L","A","R","Y">>)
    @@ (<<"P","A","S","S","P","O","R","T">> :> <<"P","A","S","S","P","O","R","T">>)
    @@ (<<"D","R","I","V","E","R","S","_","L","I","C","E","N","S","E">> :> <<"D","R","I","V","E","R","S","_","L","I","C","E","N","S","E">>)
    @@ (<<"M","E","D","I","C","A","L","_","I","D">> :> <<"M","E","D","I","C","A","L","_","I","D">>)
    @@ (<<"I","N","S","U","R","A","N","C","E">> :> <<"I","N","S","U","R","A","N","C","E">>)
    @@ (<<"E","M","P","L","O","Y","E","E","_","I","D">> :> <<"E","M","P","L","O","Y","E","E","_","I","D">>)
    @@ (<<"C","U","S","T","O","M","E","R","_","I","D">> :> <<"C","U","S","T","O","M","E","R","_","I","D">>)
    @@ (<<"A","G","E">> :> <<"A","G","E">>)
    @@ (<<"U","S","E","R","N","A","M","E">> :> <<"U","S","E","R","N","A","M","E">>)
    @@ (<<"M","R","N">> :> <<"M","R","N">>)
    @@ (<<"L","O","C","A","T","I","O","N">> :> <<"L","O","C","A","T","I","O","N">>)
    @@ (<<"M","O","N","E","Y">> :> <<"M","O","N","E","Y">>)

\* self.label_mapping of an instance of class c
label_mapping(c) ==
    IF c = "Anonymizer" THEN Anonymizer_label_mapping ELSE PIIAnonymizer_label_mapping

\* A normalization that gives every unlisted label one default
BaseLabelOrDefault(lm, label) == IF label \in DOMAIN lm THEN lm[label] ELSE <<"M","I","S","C">>

\* self.label_mapping.get(label, label)
BaseLabel(lm, label) == IF label \in DOMAIN lm THEN lm[label] ELSE label

-----------------------------------------------------------------------------
(* anonymize.py, use_model.py: spans and the substitution loop *)

\* A span is [start, end, label], offsets as in Python.

\* An overlap test on closed intervals: spans that touch overlap
_spans_overlap_closed(a_start, a_end, b_start, b_end) == a_start <= b_end /\ b_start <= a_end

\* Anonymizer._spans_overlap
_spans_overlap(a_start, a_end, b_start, b_end) == a_start < b_end /\ b_start < a_end

\* overlaps_any / overlaps_any_protected: some span of the list overlaps [s, e)
overlaps_any(s, e, spans) ==
    \E i \in 1..Len(spans) : _spans_overlap(s, e, spans[i].start, spans[i].end)

Reverse(s) == [i \in 1..Len(s) |-> s[Len(s) + 1 - i]]

\* list.sort(key=lambda x: x[0]): stable, ascending by start
RECURSIVE SortByStart(_)
SortByStart(s) ==
    IF s = << >> THEN << >>
    ELSE LET x == s[Len(s)]
             rest == SortByStart(SubSeq(s, 1, Len(s) - 1))
         IN  SelectSeq(rest, LAMBDA y : y.start <= x.start) \o <<x>>
                 \o SelectSeq(rest, LAMBDA y : y.start > x.start)

\* list.sort(key=lambda x: x[0], reverse=True): stable, descending by start
RECURSIVE SortByStartReverse(_)
SortByStartReverse(s) ==
    IF s = << >> THEN << >>
    ELSE LET x == s[Len(s)]
             rest == SortByStartReverse(SubSeq(s, 1, Len(s) - 1))
         IN  SelectSeq(rest, LAMBDA y : y.start >= x.start) \o <<x>>
                 \o SelectSeq(rest, LAMBDA y : y.start < x.start)

\* A counter that is created at 1 and never incremented afterwards
IncrementOnce(counters, base_label) ==
    IF base_label \in DOMAIN counters THEN counters
    ELSE (base_label :> 1) @@ counters

\* if base_label not in counters: counters[base_label] = 0
\* counters[base_label] += 1
Increment(counters, base_label) ==
    IF base_label \in DOMAIN counters
    THEN [counters EXCEPT ![base_label] = @ + 1]
    ELSE (base_label :> 1) @@ counters

\* f"[{base_label}{n}]"
Placeholder(base_label, n) == <<"[">> \o base_label \o Str(n) \o <<"]">>

\* The substitution loop over spans (already in iteration order) from index i:
\* the counters, the text and the placeholders of the iterations when it ends.
\* The loop of Anonymizer.anonymize_data; PIIAnonymizer.anonymize_text has the
\* same loop (use_model.py, lines 71-84).
RECURSIVE SubstituteLoop(_, _, _, _, _, _)
SubstituteLoop(lm, spans, i, counters, doc, placed) ==
    IF i > Len(spans)
    THEN [counters |-> counters, doc |-> doc, placed |-> placed]
    ELSE LET sp == spans[i]
             base_label == BaseLabel(lm, sp.label)
             c2 == Increment(counters, base_label)
             placeholder == Placeholder(base_label, c2[base_label])
         IN  SubstituteLoop(lm, spans, i + 1, c2,
                 Slice(doc, 0, sp.start) \o placeholder \o Slice(doc, sp.end, Len(doc)),
                 Append(placed, placeholder))

\* A filter that keeps every entity
ent_spans_unfiltered(custom, labels, entities) == entities

\* ent_spans of Anonymizer.anonymize_data: the entities that overlap neither a
\* custom span nor a protected label span
ent_spans(custom, labels, entities) ==
    SelectSeq(entities, LAMBDA ent :
        /\ ~overlaps_any(ent.start, ent.end, custom)
        /\ ~overlaps_any(ent.start, ent.end, labels))

\* m[key] = value on a table kept as ordered pairs: an existing key keeps its place
DictSet(m, key, value) ==
    IF key \in Keys(m)
    THEN [i \in 1..Len(m) |-> IF m[i][1] = key THEN <<key, value>> ELSE m[i]]
    ELSE Append(m, <<key, value>>)

\* The original -> placeholder table of a run: each substituted span enters
\* text[start:end] -> its placeholder, in the order of substitution, on top of m.
RECURSIVE MappingOfRun(_, _, _, _, _)
MappingOfRun(text, spans, placed, i, m) ==
    IF i > Len(spans) THEN m
    ELSE MappingOfRun(text, spans, placed, i + 1,
             DictSet(m, Slice(text, spans[i].start, spans[i].end), placed[i]))

-----------------------------------------------------------------------------
(* Inputs: documents and detector outputs *)

MaxDocLen == 2

MaxSpans == 2

MaxCarried == 1

DocChars == {"a", "b"}

Docs == UNION {[1..n -> DocChars] : n \in 0..MaxDocLen}

\* the labels of the patterns modelled, in the order _find_custom_spans appends
\* their matches
CustomLabels == <<L_PHONE, L_BANK_ACCOUNT>>

NerLabels == {L_PERSON, L_ORG}

PIILabels == {L_PERSON, L_DOB}

PatternIndex(label) == CHOOSE i \in 1..Len(CustomLabels) : CustomLabels[i] = label

Positions(n) == {p \in (0..n) \X (0..n) : p[1] < p[2]}

\* what the detectors can report on a document of n characters
Candidates(n, nerLabels, withPatterns) ==
    {[kind |-> "ent", start |-> p[1], end |-> p[2], label |-> l] :
        p \in Positions(n), l \in nerLabels}
    \cup (IF withPatterns
          THEN {[kind |-> "custom", start |-> p[1], end |-> p[2], label |-> CustomLabels[i]] :
                    p \in Positions(n), i \in 1..Len(CustomLabels)}
               \cup {[kind |-> "label", start |-> p[1], end |-> p[2], label |-> << >>] :
                    p \in Positions(n)}
          ELSE {})

\* What one run of the detectors can report together:
\*  - doc.ents are pairwise disjoint;
\*  - the matches of one pattern (finditer) are pairwise disjoint;
\*  - of the patterns modelled only the phone pattern and the bank-account
\*    pattern match overlapping text: both end on the last digit of one run of
\*    digits, the phone match starting there or earlier ("+1", "1 ", ...).
Realizable(T) ==
    \A a \in T : \A b \in T \ {a} :
        _spans_overlap(a.start, a.end, b.start, b.end) =>
            \/ a.kind # b.kind
            \/ a.kind = "label"
            \/ /\ a.kind = "custom"
               /\ {a.label, b.label} = {L_PHONE, L_BANK_ACCOUNT}
               /\ a.end = b.end
               /\ IF a.label = L_PHONE THEN a.start <= b.start ELSE b.start <= a.start

RECURSIVE KSubsets(_, _)
KSubsets(S, k) ==
    IF k = 0 THEN {{}}
    ELSE LET smaller == KSubsets(S, k - 1)
         IN  smaller \cup {T \cup {x} : T \in smaller, x \in S}

DetectorOutputs(n, nerLabels, withPatterns) ==
    {T \in KSubsets(Candidates(n, nerLabels, withPatterns), MaxSpans) : Realizable(T)}

\* the documents and what the detectors report on them: Anonymizer (spaCy
\* entities, patterns, protected labels) and PIIAnonymizer (entities only)
AnonymizerInputs ==
    UNION {{<<f, T>> : T \in DetectorOutputs(Len(f), NerLabels, TRUE)} : f \in Docs}

PIIAnonymizerInputs ==
    UNION {{<<f, T>> : T \in DetectorOutputs(Len(f), PIILabels, FALSE)} : f \in Docs}

\* the sequence of the second components of a set of pairs <<rank, x>>, by rank
RECURSIVE OrderSet(_)
OrderSet(R) ==
    IF R = {} THEN << >>
    ELSE LET r == CHOOSE r \in R : \A q \in R : r[1] <= q[1]
         IN  <<r[2]>> \o OrderSet(R \ {r})

\* custom_spans: pattern by pattern, each pattern's matches left to right
CustomList(T) ==
    OrderSet({<<PatternIndex(c.label) * (MaxDocLen + 2) + c.start,
                [start |-> c.start, end |-> c.end, label |-> c.label]>> :
              c \in {c \in T : c.kind = "custom"}})

\* doc.ents: left to right
EntList(T) ==
    OrderSet({<<c.start, [start |-> c.start, end |-> c.end, label |-> c.label]>> :
              c \in {c \in T : c.kind = "ent"}})

\* label_spans
LabelList(T) ==
    OrderSet({<<c.start * (MaxDocLen + 2) + c.end, [start |-> c.start, end |-> c.end]>> :
              c \in {c \in T : c.kind = "label"}})

RECURSIVE Sum(_)
Sum(f) ==
    IF DOMAIN f = {} THEN 0
    ELSE LET k == CHOOSE k \in DOMAIN f : TRUE
         IN  f[k] + Sum([j \in DOMAIN f \ {k} |-> f[j]])

-----------------------------------------------------------------------------
(* The anonymizers *)

\* an optional value: None, or the value given
None == << >>

Some(x) == <<x>>

\* the names of the files: one the callers name, one tempfile.mktemp makes up
TempNames == {"tmp"}

FileNames == {"f"} \cup TempNames

\* no call made yet
NoCall == [op |-> "none", text |-> << >>, response |-> << >>,
           mapping |-> None, mapping_file |-> None]

NoRet == [kind |-> "none", exc |-> "", value |-> << >>, printed |-> << >>]

\* the threads that serve requests on one instance
Threads == {"t1", "t2"}

\* a thread that has no call under way: where it is, the file of its call,
\* what the detectors find in the file, the spans its loop has still to
\* take, and its local anonymized_doc
IdleThread == [at |-> "idle", file |-> << >>, T |-> {}, todo |-> << >>, doc |-> << >>]

\* no response made yet
NoResponse == [status |-> "none", error |-> "", text |-> << >>, mapping |-> None,
               filename |-> << >>]

\* a thread that has no upload request under way: where it is, the file of
\* its request (name and content), file_ext, filepath, what its try block
\* is to return, and the response made
IdleUpload == [at |-> "idle", name |-> << >>, content |-> << >>, ext |-> << >>,
               path |-> << >>, pending |-> NoResponse, response |-> NoResponse]

Init ==
    /\ pc = "idle"
    /\ cls \in {"Anonymizer", "PIIAnonymizer"}
    /\ entity_counters = << >>
    /\ file = << >>
    /\ custom_spans = << >>
    /\ label_spans = << >>
    /\ ents = << >>
    /\ start_counters = << >>
    /\ all_spans = << >>
    /\ assigned = << >>
    /\ anonymized_doc = << >>
    /\ mapping = << >>
    /\ entry = "none"
    /\ outcome = "none"
    /\ reset_arg = FALSE
    /\ prior_counters = << >>
    /\ nlp_raised = FALSE
    /\ d_text = << >>
    /\ d_mapping = << >>
    /\ placeholders = << >>
    /\ result = << >>
    /\ warnings = << >>
    /\ labels_seen = << >>
    /\ bases_made = << >>
    /\ threads = [t \in Threads |-> IdleThread]
    /\ self_doc = << >>
    /\ current_mapping = None
    /\ mapping_file = None
    /\ fs = [f \in FileNames |-> None]
    /\ saved = [f \in FileNames |-> None]
    /\ call = NoCall
    /\ ret = NoRet
    /\ uploads = [t \in Threads |-> IdleUpload]
    /\ upload_folder = {}

\* the spans of the substitution loop in the order the loop takes them:
\* reversed(all_spans) in anonymize_data, entities as sorted in anonymize_text
IterationOrder(c, spans) == IF c = "Anonymizer" THEN Reverse(spans) ELSE spans

\* A reset that leaves the counters of the instance as they are
KeepCounters(counters) == counters

\* self.entity_counters = {}
ResetCounters(counters) == << >>

\* the assignments the anonymizers end with when they return: what the call
\* (through entry point e) was given, what its loop did (r) and what it returned
Returned(e, reset, f, custom, labels, entities, c0, iterated, listed, r) ==
    /\ file' = f
    /\ custom_spans' = custom
    /\ label_spans' = labels
    /\ ents' = entities
    /\ start_counters' = c0
    /\ all_spans' = listed
    /\ assigned' = r.placed
    /\ anonymized_doc' = r.doc
    /\ entity_counters' = r.counters
    /\ mapping' = MappingOfRun(f, iterated, r.placed, 1, << >>)
    /\ entry' = e
    /\ outcome' = IF e = "api_anonymize" THEN "200" ELSE "returned"
    /\ reset_arg' = reset
    /\ prior_counters' = entity_counters
    /\ nlp_raised' = FALSE
    /\ pc' = "anonymized"
    /\ UNCHANGED <<extVars, cls, deanonVars>>

\* a call (through entry point e) that ends without a result: an exception
\* leaves it, or the endpoint answers with an error status; the instance is
\* left with the given counters
Failed(e, reset, f, o, counters, nlp) ==
    /\ file' = f
    /\ custom_spans' = << >>
    /\ label_spans' = << >>
    /\ ents' = << >>
    /\ start_counters' = << >>
    /\ all_spans' = << >>
    /\ assigned' = << >>
    /\ anonymized_doc' = << >>
    /\ entity_counters' = counters
    /\ mapping' = << >>
    /\ entry' = e
    /\ outcome' = o
    /\ reset_arg' = reset
    /\ prior_counters' = entity_counters
    /\ nlp_raised' = nlp
    /\ pc' = "failed"
    /\ UNCHANGED <<extVars, cls, deanonVars>>

\* Anonymizer.anonymize_data(f) when the detectors report T: the counters are
\* reset, the entities are filtered, all_spans is sorted and the loop takes
\* it reversed
anonymize_data(e, f, T) ==
    \E c0 \in {ResetCounters(entity_counters)} :
    \E custom \in {CustomList(T)} : \E labels \in {LabelList(T)} :
    \E entities \in {EntList(T)} :
    \E sorted \in {SortByStart(custom \o ent_spans(custom, labels, entities))} :
    \E r \in {SubstituteLoop(label_mapping("Anonymizer"), Reverse(sorted), 1, c0, f, << >>)} :
        Returned(e, TRUE, f, custom, labels, entities, c0, Reverse(sorted), sorted, r)

\* Anonymizer.anonymize_data(f) when nlp(f) raises: nothing catches the
\* error, which leaves the call on its first line, before the counters are
\* reset; o is what the caller of entry point e gets
anonymize_data_error(e, f, o) == Failed(e, TRUE, f, o, entity_counters, TRUE)

\* a call of anonymize_data on any document, with any detector outputs; an
\* instance is called again while the counts it carries are within MaxCarried
AnonymizeData ==
    /\ pc = "idle"
    /\ cls = "Anonymizer"
    /\ Sum(entity_counters) <= MaxCarried
    /\ \/ \E in \in AnonymizerInputs : anonymize_data("anonymize_data", in[1], in[2])
       \/ \E f \in Docs : anonymize_data_error("anonymize_data", f, "raised")

\* PIIAnonymizer.anonymize_text(text, reset_counters) when the model reports
\* T: the counters are reset if asked, entities is sorted in reverse and the
\* loop takes it as sorted
anonymize_text(text, T, reset_counters) ==
    \E c0 \in {IF reset_counters THEN ResetCounters(entity_counters) ELSE entity_counters} :
    \E entities \in {SortByStartReverse(EntList(T))} :
    \E r \in {SubstituteLoop(label_mapping("PIIAnonymizer"), entities, 1, c0, text, << >>)} :
        Returned("anonymize_text", reset_counters, text, << >>, << >>, EntList(T),
                 c0, entities, entities, r)

\* PIIAnonymizer.anonymize_text(text, reset_counters) when self.nlp(text)
\* raises: the counters are reset first if asked, then the error leaves the call
anonymize_text_error(text, reset_counters) ==
    Failed("anonymize_text", reset_counters, text, "raised",
           IF reset_counters THEN ResetCounters(entity_counters) ELSE entity_counters, TRUE)

\* a call of anonymize_text on any document, with any entities; the counts
\* carried from call to call (reset_counters=False) are capped by MaxCarried
AnonymizeText ==
    /\ pc = "idle"
    /\ cls = "PIIAnonymizer"
    /\ Sum(entity_counters) <= MaxCarried
    /\ \E reset_counters \in BOOLEAN :
        \/ \E in \in PIIAnonymizerInputs : anonymize_text(in[1], in[2], reset_counters)
        \/ \E text \in Docs : anonymize_text_error(text, reset_counters)

-----------------------------------------------------------------------------
(* server.py: POST /api/anonymize *)

Whitespace == {" ", "\n", "\t"}

\* the number of whitespace characters at the end of s
RECURSIVE TrailingWhitespace(_)
TrailingWhitespace(s) ==
    IF s # << >> /\ s[Len(s)] \in Whitespace
    THEN 1 + TrailingWhitespace(SubSeq(s, 1, Len(s) - 1)) ELSE 0

\* text.strip(): text without its leading and trailing whitespace
Strip(s) ==
    LET lead == Run(s, 1, Whitespace)
    IN  IF lead = Len(s) THEN << >>
        ELSE SubSeq(s, lead + 1, Len(s) - TrailingWhitespace(s))

\* A validation that lets every text through
NeverEmpty(text) == FALSE

\* not text.strip()
IsEmptyText(text) == Strip(text) = << >>

\* the "text" of the payloads posted: a document, or whitespace only
ApiTexts == Docs \cup {<<" ">>}

\* api_anonymize: a payload without "text" and a text that is empty once
\* stripped are answered with status 400; otherwise the text goes to the
\* anonymizer: its result is answered with 200, its exception with 500
ApiAnonymize ==
    /\ pc = "idle"
    /\ cls = "Anonymizer"
    /\ Sum(entity_counters) <= MaxCarried
    /\ \/ Failed("api_anonymize", FALSE, << >>, "400: Missing text parameter",
                 entity_counters, FALSE)
       \/ \E text \in ApiTexts :
              /\ IsEmptyText(text)
              /\ Failed("api_anonymize", FALSE, text, "400: Text cannot be empty",
                        entity_counters, FALSE)
       \/ \E in \in AnonymizerInputs :
              /\ ~IsEmptyText(in[1])
              /\ anonymize_data("api_anonymize", in[1], in[2])
       \/ \E f \in Docs :
              /\ ~IsEmptyText(f)
              /\ anonymize_data_error("api_anonymize", f, "500")

-----------------------------------------------------------------------------
(* deanonymize.py: deanonymize *)

\* deanonymize(text, m) up to its loop
DeanonymizeEnter(text, m) ==
    /\ d_text' = text
    /\ d_mapping' = m
    /\ placeholders' = FindAll(text)
    /\ result' = text
    /\ warnings' = << >>
    /\ pc' = "restoring"

\* the caller hands the text and the table of its anonymization to deanonymize
DeanonymizeRoundTrip ==
    /\ pc = "anonymized"
    /\ DeanonymizeEnter(anonymized_doc, mapping)
    /\ UNCHANGED <<extVars, cls, entity_counters, anonVars>>

\* one iteration of "for placeholder in placeholders"
DeanonymizeStep ==
    /\ pc = "restoring"
    /\ placeholders # << >>
    /\ result' = StepResult(result, Head(placeholders), reverse_mapping(d_mapping))
    /\ warnings' = StepWarnings(warnings, Head(placeholders), reverse_mapping(d_mapping))
    /\ placeholders' = Tail(placeholders)
    /\ UNCHANGED <<extVars, pc, cls, entity_counters, anonVars, d_text, d_mapping>>

\* return result
DeanonymizeReturn ==
    /\ pc = "restoring"
    /\ placeholders = << >>
    /\ pc' = "done"
    /\ UNCHANGED <<extVars, cls, entity_counters, anonVars, deanonVars>>

\* the caller drops the results of the calls; the instance keeps its counters
Finish ==
    /\ pc \in {"done", "failed"}
    /\ pc' = "idle"
    /\ file' = << >>
    /\ custom_spans' = << >>
    /\ label_spans' = << >>
    /\ ents' = << >>
    /\ start_counters' = << >>
    /\ all_spans' = << >>
    /\ assigned' = << >>
    /\ anonymized_doc' = << >>
    /\ mapping' = << >>
    /\ entry' = "none"
    /\ outcome' = "none"
    /\ reset_arg' = FALSE
    /\ prior_counters' = << >>
    /\ nlp_raised' = FALSE
    /\ d_text' = << >>
    /\ d_mapping' = << >>
    /\ placeholders' = << >>
    /\ result' = << >>
    /\ warnings' = << >>
    /\ UNCHANGED <<extVars, cls, entity_counters>>

Next ==
    \/ AnonymizeData
    \/ AnonymizeText
    \/ ApiAnonymize
    \/ DeanonymizeRoundTrip
    \/ DeanonymizeStep
    \/ DeanonymizeReturn
    \/ Finish

Spec == Init /\ [][Next]_vars

-----------------------------------------------------------------------------
(* The reversal engine on its own: deanonymize on any text and table *)

MaxPieces == 3

MaxEntries == 2

T_A1 == <<"[", "A", "1", "]">>

T_A10 == <<"[", "A", "1", "0", "]">>

T_B1 == <<"[", "B", "1", "]">>

RevPieces == {T_A1, T_A10, T_B1, <<"x">>}

RECURSIVE Concatenations(_, _)
Concatenations(P, k) ==
    IF k = 0 THEN {<< >>}
    ELSE LET shorter == Concatenations(P, k - 1)
         IN  shorter \cup {t \o p : t \in shorter, p \in P}

RevTexts == Concatenations(RevPieces, MaxPieces)

RevOriginals == {<<"x">>, <<"y">>, T_B1}

RevPlaceholders == {T_A1, T_A10, T_B1}

\* the tables of at most k items: distinct keys, in any insertion order
RECURSIVE Tables(_)
Tables(k) ==
    IF k = 0 THEN {<< >>}
    ELSE LET smaller == Tables(k - 1)
         IN  smaller \cup {Append(m, <<o, p>>) :
                              m \in {m \in smaller : Len(m) = k - 1},
                              o \in RevOriginals, p \in RevPlaceholders}

RevMappings == {m \in Tables(MaxEntries) : Cardinality(Keys(m)) = Len(m)}

\* deanonymize called on its own, on any text and table
DeanonymizeCall ==
    /\ pc = "idle"
    /\ \E text \in RevTexts : \E m \in RevMappings : DeanonymizeEnter(text, m)
    /\ UNCHANGED <<extVars, cls, entity_counters, anonVars>>

InitRev == Init /\ cls = "Anonymizer"

NextRev ==
    \/ DeanonymizeCall
    \/ DeanonymizeStep
    \/ DeanonymizeReturn
    \/ Finish

SpecRev == InitRev /\ [][NextRev]_vars

-----------------------------------------------------------------------------
(* deanonymize.py: deanonymize as a function, and the mapping files *)

\* the loop of deanonymize from the placeholders still to take
RECURSIVE DeanonymizeLoop(_, _, _)
DeanonymizeLoop(res, phs, rev) ==
    IF phs = << >> THEN res
    ELSE DeanonymizeLoop(StepResult(res, Head(phs), rev), Tail(phs), rev)

\* deanonymize(anonymized_text, mapping): the text returned
deanonymize(text, m) == DeanonymizeLoop(text, FindAll(text), reverse_mapping(m))

\* deanonymize(anonymized_text, mapping): the lines printed
deanonymize_printed(text, m) ==
    LET rev == reverse_mapping(m)
        missing == SelectSeq(FindAll(text), LAMBDA t : t \notin DOMAIN rev)
    IN  [k \in 1..Len(missing) |-> <<"Warning: No mapping found for placeholder", missing[k]>>]

\* a character outside ASCII (U+00E9)
E_ACUTE == "U+00E9"

\* An encoder that escapes the quote only
EscapeQuoteOnly(c) == IF c = "\"" THEN <<"\\", "\"">> ELSE <<c>>

\* json.dump (ensure_ascii) of one character of a string
EscapeChar(c) ==
    IF c = "\"" THEN <<"\\", "\"">>
    ELSE IF c = "\\" THEN <<"\\", "\\">>
    ELSE IF c = "\n" THEN <<"\\", "n">>
    ELSE IF c = E_ACUTE THEN <<"\\", "u", "0", "0", "e", "9">>
    ELSE <<c>>

RECURSIVE EscapeFrom(_, _)
EscapeFrom(str, i) ==
    IF i > Len(str) THEN << >> ELSE EscapeChar(str[i]) \o EscapeFrom(str, i + 1)

\* json.dump of a string
JsonString(str) == <<"\"">> \o EscapeFrom(str, 1) \o <<"\"">>

\* the members of the object from item i, each on its own line, indented by 2
RECURSIVE JsonMembers(_, _)
JsonMembers(m, i) ==
    <<"\n", " ", " ">> \o JsonString(m[i][1]) \o <<":", " ">> \o JsonString(m[i][2])
        \o (IF i < Len(m) THEN <<",">> \o JsonMembers(m, i + 1) ELSE << >>)

\* json.dump(mapping, f, indent=2): the text written
JsonDump(m) ==
    IF m = << >> THEN <<"{", "}">>
    ELSE <<"{">> \o JsonMembers(m, 1) \o <<"\n", "}">>

JsonWhitespace == {" ", "\n", "\t", "\r"}

\* the position of the first character at or after i that is not whitespace
SkipWs(text, i) == i + Run(text, i, JsonWhitespace)

JsonError == [ok |-> FALSE, value |-> << >>, next |-> 0]

\* the characters of a JSON string from position i (behind its opening
\* quote) up to its closing quote, escapes decoded
RECURSIVE ParseChars(_, _, _)
ParseChars(text, i, acc) ==
    IF i > Len(text) THEN JsonError
    ELSE IF text[i] = "\"" THEN [ok |-> TRUE, value |-> acc, next |-> i + 1]
    ELSE IF text[i] = "\\"
         THEN IF i + 1 > Len(text) THEN JsonError
              ELSE IF text[i + 1] \in {"\"", "\\"}
                   THEN ParseChars(text, i + 2, Append(acc, text[i + 1]))
              ELSE IF text[i + 1] = "n" THEN ParseChars(text, i + 2, Append(acc, "\n"))
              ELSE IF text[i + 1] = "u" /\ Slice(text, i + 1, i + 5) = <<"0", "0", "e", "9">>
                   THEN ParseChars(text, i + 6, Append(acc, E_ACUTE))
              ELSE JsonError
    ELSE IF text[i] \in {"\n", "\t", "\r"} THEN JsonError
    ELSE ParseChars(text, i + 1, Append(acc, text[i]))

\* a JSON string at position i
ParseString(text, i) ==
    IF i <= Len(text) /\ text[i] = "\"" THEN ParseChars(text, i + 1, << >>) ELSE JsonError

\* obj[key] = value while the object is read: a repeated key takes the later value
ObjectSet(m, key, value) ==
    IF key \in Keys(m)
    THEN [i \in 1..Len(m) |-> IF m[i][1] = key THEN <<key, value>> ELSE m[i]]
    ELSE Append(m, <<key, value>>)

\* the members of a JSON object from position i (the start of a key) to the
\* end of the text, added to m
RECURSIVE ParseMembers(_, _, _)
ParseMembers(text, i, m) ==
    LET k == ParseString(text, i)
        colon == SkipWs(text, k.next)
        v == ParseString(text, SkipWs(text, colon + 1))
        e == SkipWs(text, v.next)
    IN  IF ~k.ok \/ colon > Len(text) THEN JsonError
        ELSE IF text[colon] # ":" \/ ~v.ok \/ e > Len(text) THEN JsonError
        ELSE IF text[e] = ","
             THEN ParseMembers(text, SkipWs(text, e + 1), ObjectSet(m, k.value, v.value))
        ELSE IF text[e] = "}" /\ SkipWs(text, e + 1) > Len(text)
             THEN [ok |-> TRUE, value |-> ObjectSet(m, k.value, v.value), next |-> Len(text) + 1]
        ELSE JsonError

\* json.load of a text: an object of strings; ok is false where json.load
\* raises JSONDecodeError
JsonLoad(text) ==
    LET open == SkipWs(text, 1)
        first == SkipWs(text, open + 1)
    IN  IF open > Len(text) THEN JsonError
        ELSE IF text[open] # "{" \/ first > Len(text) THEN JsonError
        ELSE IF text[first] = "}"
             THEN (IF SkipWs(text, first + 1) > Len(text)
                   THEN [ok |-> TRUE, value |-> << >>, next |-> Len(text) + 1]
                   ELSE JsonError)
        ELSE ParseMembers(text, first, << >>)

\* load_mapping(filename) on the files as they are: the table returned, or
\* the exception open or json.load raises
load_mapping(files, filename) ==
    IF files[filename] = None
    THEN [kind |-> "raised", exc |-> "FileNotFoundError", value |-> << >>, printed |-> << >>]
    ELSE LET r == JsonLoad(files[filename][1])
         IN  IF r.ok
             THEN [kind |-> "returned", exc |-> "", value |-> r.value, printed |-> << >>]
             ELSE [kind |-> "raised", exc |-> "JSONDecodeError", value |-> << >>, printed |-> << >>]

-----------------------------------------------------------------------------
(* pii_processor.py: PIIProcessor, and the file functions of deanonymize.py *)

\* an original with a quote, a backslash and a character outside ASCII
K_SPECIAL == <<"\"", "\\", E_ACUTE>>

\* the tables that go through the processor: empty, one entry, two entries
\* in either order
ProcMappings ==
    {<< >>,
     << <<<<"x">>, T_A1>> >>,
     << <<<<"x">>, T_A1>>, <<K_SPECIAL, T_B1>> >>,
     << <<K_SPECIAL, T_B1>>, <<<<"x">>, T_A1>> >>}

\* the texts given for reversal
ProcTexts == {T_A1 \o T_B1, <<"b">> \o T_A1}

\* the documents given for anonymization
ProcDocuments == {<<"b">>, <<"x", "b">>, K_SPECIAL \o <<"x">>}

OptMappings == {None} \cup {Some(m) : m \in ProcMappings}

OptFiles == {None} \cup {Some(f) : f \in FileNames}

\* text with every original of the table replaced by its placeholder, item by item
RECURSIVE SubstituteAll(_, _, _)
SubstituteAll(text, m, i) ==
    IF i > Len(m) THEN text
    ELSE SubstituteAll(Replace(text, m[i][1], m[i][2]), m, i + 1)

\* what anonymize(text) can return, the detectors finding any of the
\* originals that occur in the text: the anonymized text and the table
AnonymizeResults(text) ==
    {<<SubstituteAll(text, m, 1), m>> :
        m \in {m \in ProcMappings :
                  \A k \in Keys(m) : \E i \in 1..Len(text) : OccursAt(text, i, k)}}

\* the truth value Python gives an optional table: None and {} are false
Truthy(opt) == opt # None /\ opt[1] # << >>

\* the mapping deanonymize_text uses: the chain of "if mapping: ... elif
\* mapping_file: ... elif self.current_mapping: ... elif self.mapping_file:
\* ... else: raise ValueError"
SelectMapping(mapping_arg, mapping_file_arg, current, stored, files) ==
    IF Truthy(mapping_arg)
    THEN [kind |-> "returned", exc |-> "", value |-> mapping_arg[1], printed |-> << >>]
    ELSE IF mapping_file_arg # None THEN load_mapping(files, mapping_file_arg[1])
    ELSE IF Truthy(current)
    THEN [kind |-> "returned", exc |-> "", value |-> current[1], printed |-> << >>]
    ELSE IF stored # None THEN load_mapping(files, stored[1])
    ELSE [kind |-> "raised", exc |-> "ValueError", value |-> << >>, printed |-> << >>]

\* PIIProcessor.deanonymize_text on a processor with the given attributes:
\* what the caller gets
deanonymize_text(text, mapping_arg, mapping_file_arg, current, stored, files) ==
    LET use_mapping == SelectMapping(mapping_arg, mapping_file_arg, current, stored, files)
    IN  IF use_mapping.kind = "raised" THEN use_mapping
        ELSE [kind |-> "returned", exc |-> "",
              value |-> deanonymize(text, use_mapping.value),
              printed |-> deanonymize_printed(text, use_mapping.value)]

\* save_mapping(m, filename): the files after it
save_mapping(files, m, filename) == [files EXCEPT ![filename] = Some(JsonDump(m))]

\* PIIProcessor.anonymize_text(text, save_mapping_to)
ProcAnonymizeText ==
    /\ call.op = "none"
    /\ \E text \in ProcDocuments : \E out \in AnonymizeResults(text) : \E save_mapping_to \in OptFiles :
        /\ current_mapping' = Some(out[2])
        /\ IF save_mapping_to # None
           THEN /\ fs' = save_mapping(fs, out[2], save_mapping_to[1])
                /\ saved' = [saved EXCEPT ![save_mapping_to[1]] = Some(out[2])]
                /\ mapping_file' = save_mapping_to
           ELSE UNCHANGED <<fs, saved, mapping_file>>
        /\ call' = [op |-> "anonymize_text", text |-> text, response |-> << >>,
                    mapping |-> None, mapping_file |-> save_mapping_to]
        /\ ret' = [kind |-> "returned", exc |-> "", value |-> out,
                   printed |-> IF save_mapping_to # None THEN <<"Mapping saved">> ELSE << >>]
        /\ UNCHANGED <<coreVars, labelVars, concVars, upVars>>

\* PIIProcessor.deanonymize_text(anonymized_text, mapping, mapping_file)
ProcDeanonymizeText ==
    /\ call.op = "none"
    /\ \E text \in ProcTexts : \E mapping_arg \in OptMappings : \E mapping_file_arg \in OptFiles :
        /\ call' = [op |-> "deanonymize_text", text |-> text, response |-> << >>,
                    mapping |-> mapping_arg, mapping_file |-> mapping_file_arg]
        /\ ret' = deanonymize_text(text, mapping_arg, mapping_file_arg,
                                   current_mapping, mapping_file, fs)
        /\ UNCHANGED <<coreVars, labelVars, concVars, upVars, current_mapping, mapping_file, fs, saved>>

\* quick_deanonymize(anonymized_text, mapping): deanonymize_text on a new processor
QuickDeanonymize ==
    /\ call.op = "none"
    /\ \E text \in ProcTexts : \E m \in ProcMappings :
        /\ call' = [op |-> "quick_deanonymize", text |-> text, response |-> << >>,
                    mapping |-> Some(m), mapping_file |-> None]
        /\ ret' = deanonymize_text(text, Some(m), None, None, None, fs)
        /\ UNCHANGED <<coreVars, labelVars, concVars, upVars, current_mapping, mapping_file, fs, saved>>

\* deanonymize_from_files(anonymized_text, mapping_file): the two exceptions
\* are caught, an "Error:" line is printed and the text is returned as given
DeanonymizeFromFiles ==
    /\ call.op = "none"
    /\ \E text \in ProcTexts : \E filename \in FileNames :
        /\ call' = [op |-> "deanonymize_from_files", text |-> text, response |-> << >>,
                    mapping |-> None, mapping_file |-> Some(filename)]
        /\ ret' = LET loaded == load_mapping(fs, filename)
                  IN  IF loaded.kind = "returned"
                      THEN [kind |-> "returned", exc |-> "",
                            value |-> deanonymize(text, loaded.value),
                            printed |-> deanonymize_printed(text, loaded.value)]
                      ELSE [kind |-> "returned", exc |-> "", value |-> text,
                            printed |-> << <<"Error", loaded.exc>> >>]
        /\ UNCHANGED <<coreVars, labelVars, concVars, upVars, current_mapping, mapping_file, fs, saved>>

\* save_mapping(mapping, filename)
SaveMapping ==
    /\ call.op = "none"
    /\ \E m \in ProcMappings : \E filename \in FileNames :
        /\ fs' = save_mapping(fs, m, filename)
        /\ saved' = [saved EXCEPT ![filename] = Some(m)]
        /\ call' = [op |-> "save_mapping", text |-> << >>, response |-> << >>,
                    mapping |-> Some(m), mapping_file |-> Some(filename)]
        /\ ret' = [kind |-> "returned", exc |-> "", value |-> << >>,
                   printed |-> <<"Mapping saved">>]
        /\ UNCHANGED <<coreVars, labelVars, concVars, upVars, current_mapping, mapping_file>>

\* load_mapping(filename)
LoadMapping ==
    /\ call.op = "none"
    /\ \E filename \in FileNames :
        /\ call' = [op |-> "load_mapping", text |-> << >>, response |-> << >>,
                    mapping |-> None, mapping_file |-> Some(filename)]
        /\ ret' = load_mapping(fs, filename)
        /\ UNCHANGED <<coreVars, labelVars, concVars, upVars, current_mapping, mapping_file, fs, saved>>

\* PIIProcessor.process_web_llm_workflow(original_text, web_llm_response,
\* mapping_file): without a file name tempfile.mktemp gives one that no file
\* has; anonymize_text saves the mapping there and deanonymize_text is told
\* to read it from there
ProcessWebLlmWorkflow ==
    /\ call.op = "none"
    /\ \E original_text \in ProcDocuments : \E out \in AnonymizeResults(original_text) :
       \E web_llm_response \in ProcTexts : \E mapping_file_arg \in OptFiles :
       \E filename \in IF mapping_file_arg # None THEN {mapping_file_arg[1]}
                       ELSE {t \in TempNames : fs[t] = None} :
       \E files \in {save_mapping(fs, out[2], filename)} :
       \E restored \in {deanonymize_text(web_llm_response, None, Some(filename),
                                         Some(out[2]), Some(filename), files)} :
        /\ current_mapping' = Some(out[2])
        /\ mapping_file' = Some(filename)
        /\ fs' = files
        /\ saved' = [saved EXCEPT ![filename] = Some(out[2])]
        /\ call' = [op |-> "process_web_llm_workflow", text |-> original_text,
                    response |-> web_llm_response,
                    mapping |-> None, mapping_file |-> mapping_file_arg]
        /\ ret' = IF restored.kind = "raised" THEN restored
                  ELSE [kind |-> "returned", exc |-> "",
                        value |-> <<out[1], restored.value, filename>>,
                        printed |-> <<"Mapping saved">> \o restored.printed]
        /\ UNCHANGED <<coreVars, labelVars, concVars, upVars>>

\* PIIProcessor.cleanup_mapping_file()
CleanupMappingFile ==
    /\ call.op = "none"
    /\ IF mapping_file # None /\ fs[mapping_file[1]] # None
       THEN /\ fs' = [fs EXCEPT ![mapping_file[1]] = None]
            /\ saved' = [saved EXCEPT ![mapping_file[1]] = None]
            /\ mapping_file' = None
       ELSE UNCHANGED <<fs, saved, mapping_file>>
    /\ call' = [NoCall EXCEPT !.op = "cleanup_mapping_file"]
    /\ ret' = [NoRet EXCEPT !.kind = "returned"]
    /\ UNCHANGED <<coreVars, labelVars, concVars, upVars, current_mapping>>

\* outside the program a mapping file is deleted
FileRemoved ==
    /\ call.op = "none"
    /\ \E filename \in FileNames :
        /\ fs[filename] # None
        /\ fs' = [fs EXCEPT ![filename] = None]
        /\ saved' = [saved EXCEPT ![filename] = None]
        /\ call' = NoCall
        /\ ret' = NoRet
        /\ UNCHANGED <<coreVars, labelVars, concVars, upVars, current_mapping, mapping_file>>

\* outside the program a mapping file loses its end
FileTruncated ==
    /\ call.op = "none"
    /\ \E filename \in FileNames :
        /\ fs[filename] # None
        /\ JsonLoad(fs[filename][1]).ok
        /\ fs' = [fs EXCEPT ![filename] = Some(SubSeq(fs[filename][1], 1, Len(fs[filename][1]) - 1))]
        /\ saved' = [saved EXCEPT ![filename] = None]
        /\ call' = NoCall
        /\ ret' = NoRet
        /\ UNCHANGED <<coreVars, labelVars, concVars, upVars, current_mapping, mapping_file>>

\* the caller has taken what the call gave; the processor and the files stay
ProcDone ==
    /\ call.op # "none"
    /\ call' = NoCall
    /\ ret' = NoRet
    /\ UNCHANGED <<coreVars, labelVars, concVars, upVars, current_mapping, mapping_file, fs, saved>>

InitProc == Init /\ cls = "Anonymizer"

NextProc ==
    \/ ProcAnonymizeText
    \/ ProcDeanonymizeText
    \/ QuickDeanonymize
    \/ DeanonymizeFromFiles
    \/ SaveMapping
    \/ LoadMapping
    \/ ProcessWebLlmWorkflow
    \/ CleanupMappingFile
    \/ FileRemoved
    \/ FileTruncated
    \/ ProcDone

SpecProc == InitProc /\ [][NextProc]_vars

-----------------------------------------------------------------------------
(* Label normalization on its own: base_label of any two detector labels *)

\* the entity labels of the NER model loaded, en_core_web_lg
SpacyLabels ==
    {<<"C","A","R","D","I","N","A","L">>,
     <<"D","A","T","E">>,
     <<"E","V","E","N","T">>,
     <<"F","A","C">>,
     <<"G","P","E">>,
     <<"L","A","N","G","U","A","G","E">>,
     <<"L","A","W">>,
     <<"L","O","C">>,
     <<"M","O","N","E","Y">>,
     <<"N","O","R","P">>,
     <<"O","R","D","I","N","A","L">>,
     <<"O","R","G">>,
     <<"P","E","R","C","E","N","T">>,
     <<"P","E","R","S","O","N">>,
     <<"P","R","O","D","U","C","T">>,
     <<"Q","U","A","N","T","I","T","Y">>,
     <<"T","I","M","E">>,
     <<"W","O","R","K","_","O","F","_","A","R","T">>}

\* the labels _find_custom_spans gives its spans
PatternLabels ==
    {<<"S","S","N">>,
     <<"P","H","O","N","E">>,
     <<"C","R","E","D","I","T","_","C","A","R","D">>,
     <<"Z","I","P">>,
     <<"R","O","U","T","I","N","G","_","N","U","M","B","E","R">>,
     <<"B","A","N","K","_","A","C","C","O","U","N","T">>}

\* the labels an instance of class c can meet: Anonymizer those of its NER
\* model and of its patterns; PIIAnonymizer those its label_mapping lists for
\* its trained model and, unlisted, those of a stock NER model
DetectorLabels(c) ==
    IF c = "Anonymizer" THEN SpacyLabels \cup PatternLabels
    ELSE DOMAIN PIIAnonymizer_label_mapping \cup SpacyLabels

\* the loop normalizes the labels of two spans
NormalizeLabels ==
    /\ pc = "idle"
    /\ labels_seen = << >>
    /\ \E a \in DetectorLabels(cls) : \E b \in DetectorLabels(cls) :
           /\ labels_seen' = <<a, b>>
           /\ bases_made' = <<BaseLabel(label_mapping(cls), a), BaseLabel(label_mapping(cls), b)>>
    /\ UNCHANGED <<coreVars, concVars, procVars, upVars>>

NextLabels == NormalizeLabels

SpecLabels == Init /\ [][NextLabels]_vars

-----------------------------------------------------------------------------
(* Concurrent calls of anonymize_data on one Anonymizer (the server runs      *)
(* threaded): the threads share self.doc and self.entity_counters, and a      *)
(* thread can be switched between any two statements.                         *)

\* the calls made concurrently: a document and the entities the NER model
\* finds in it
ConcInputs ==
    UNION {{<<f, T>> : T \in DetectorOutputs(Len(f), {L_PERSON}, FALSE)} :
           f \in UNION {[1..n -> {"a"}] : n \in 0..MaxDocLen}}

\* a thread enters anonymize_data(file)
ConcCall(t) ==
    /\ threads[t].at = "idle"
    /\ \E in \in ConcInputs :
           threads' = [threads EXCEPT ![t] =
               [at |-> "nlp", file |-> in[1], T |-> in[2], todo |-> << >>, doc |-> << >>]]
    /\ UNCHANGED <<coreVars, labelVars, procVars, upVars, self_doc>>

\* self.doc = nlp(file); anonymized_doc = file
ConcNlp(t) ==
    /\ threads[t].at = "nlp"
    /\ self_doc' = EntList(threads[t].T)
    /\ threads' = [threads EXCEPT ![t].at = "reset", ![t].doc = threads[t].file]
    /\ UNCHANGED <<coreVars, labelVars, procVars, upVars>>

\* self.entity_counters = {}
ConcReset(t) ==
    /\ threads[t].at = "reset"
    /\ entity_counters' = ResetCounters(entity_counters)
    /\ threads' = [threads EXCEPT ![t].at = "spans"]
    /\ UNCHANGED <<pc, cls, anonVars, deanonVars, labelVars, procVars, upVars, self_doc>>

\* custom_spans, label_spans, ent_spans (from self.doc.ents, as it is now)
\* and all_spans, sorted; the loop is to take it reversed
ConcSpans(t) ==
    /\ threads[t].at = "spans"
    /\ \E custom \in {CustomList(threads[t].T)} : \E labels \in {LabelList(threads[t].T)} :
       \E sorted \in {SortByStart(custom \o ent_spans(custom, labels, self_doc))} :
           threads' = [threads EXCEPT ![t].at = "loop", ![t].todo = Reverse(sorted)]
    /\ UNCHANGED <<coreVars, labelVars, procVars, upVars, self_doc>>

\* one iteration of the substitution loop, on self.entity_counters as it is now
ConcIteration(t) ==
    /\ threads[t].at = "loop"
    /\ threads[t].todo # << >>
    /\ \E r \in {SubstituteLoop(label_mapping("Anonymizer"), <<Head(threads[t].todo)>>, 1,
                                entity_counters, threads[t].doc, << >>)} :
           /\ entity_counters' = r.counters
           /\ threads' = [threads EXCEPT ![t].todo = Tail(threads[t].todo), ![t].doc = r.doc]
    /\ UNCHANGED <<pc, cls, anonVars, deanonVars, labelVars, procVars, upVars, self_doc>>

\* return anonymized_doc
ConcReturn(t) ==
    /\ threads[t].at = "loop"
    /\ threads[t].todo = << >>
    /\ threads' = [threads EXCEPT ![t].at = "done"]
    /\ UNCHANGED <<coreVars, labelVars, procVars, upVars, self_doc>>

InitConc == Init /\ cls = "Anonymizer"

NextConc ==
    \E t \in Threads :
        \/ ConcCall(t)
        \/ ConcNlp(t)
        \/ ConcReset(t)
        \/ ConcSpans(t)
        \/ ConcIteration(t)
        \/ ConcReturn(t)

SpecConc == InitConc /\ [][NextConc]_vars

-----------------------------------------------------------------------------
(* server.py: POST /api/upload, requests served by threads *)

\* the characters \w matches, of those the file names are written with
WordChars == {"a", "d", "f", "j", "n", "o", "p", "s", "t", "x", "T", "X"}

\* re.sub(r'[^\w\s.-]', '', filename)
RemoveUnsafe(filename) ==
    SelectSeq(filename, LAMBDA c : c \in WordChars \cup Whitespace \cup {".", "-"})

\* re.sub(r'[-\s]+', '-', filename): every run of dashes and whitespace
\* becomes one dash
RECURSIVE CollapseSeparators(_, _)
CollapseSeparators(filename, i) ==
    IF i > Len(filename) THEN << >>
    ELSE LET n == Run(filename, i, Whitespace \cup {"-"})
         IN  IF n > 0 THEN <<"-">> \o CollapseSeparators(filename, i + n)
             ELSE <<filename[i]>> \o CollapseSeparators(filename, i + 1)

\* the number of dashes at the end of s
RECURSIVE TrailingDashes(_)
TrailingDashes(s) ==
    IF s # << >> /\ s[Len(s)] = "-"
    THEN 1 + TrailingDashes(SubSeq(s, 1, Len(s) - 1)) ELSE 0

\* filename.strip('-')
StripDashes(s) ==
    LET lead == Run(s, 1, {"-"})
    IN  IF lead = Len(s) THEN << >>
        ELSE SubSeq(s, lead + 1, Len(s) - TrailingDashes(s))

\* secure_filename(filename) of server.py
secure_filename(filename) == StripDashes(CollapseSeparators(RemoveUnsafe(filename), 1))

\* str.lower() on the characters of the file names
LowerChar(c) == CASE c = "T" -> "t" [] c = "X" -> "x" [] OTHER -> c

\* the 1-based position of the last "." of s, 0 if there is none
RECURSIVE LastDot(_)
LastDot(s) ==
    IF s = << >> THEN 0
    ELSE IF s[Len(s)] = "." THEN Len(s)
    ELSE LastDot(SubSeq(s, 1, Len(s) - 1))

\* '.' + filename.rsplit('.', 1)[1].lower() if '.' in filename else ''
FileExt(filename) ==
    IF LastDot(filename) = 0 THEN << >>
    ELSE <<".">> \o [i \in 1..(Len(filename) - LastDot(filename)) |->
                        LowerChar(filename[LastDot(filename) + i])]

EXT_TXT == <<".", "t", "x", "t">>

EXT_JSON == <<".", "j", "s", "o", "n">>

EXT_PDF == <<".", "p", "d", "f">>

\* allowed_extensions, of which .xlsx and .docx are handled as .pdf is
AllowedExtensions == {EXT_TXT, EXT_PDF, EXT_JSON}

\* the names of the files uploaded: none selected, no extension, a text
\* file, two names the sanitizer changes, a mapping file, a PDF
UploadNames ==
    {<< >>,
     <<"a">>,
     <<"a", ".", "t", "x", "t">>,
     <<"a", "!", ".", "t", "x", "t">>,
     <<"-", "a", " ", ".", "T", "X", "T">>,
     <<"a", ".", "j", "s", "o", "n">>,
     <<"a", ".", "p", "d", "f">>}

\* the contents of the files uploaded: two texts and two mapping files
UploadContents ==
    {<<"x">>, <<"y">>, JsonDump(<< >>), JsonDump(<< <<<<"x">>, T_A1>> >>)}

\* os.path.exists(filepath)
FileExists(folder, path) == \E e \in folder : e[1] = path

\* the content of the file at filepath
FileContent(folder, path) == (CHOOSE e \in folder : e[1] = path)[2]

\* file.save(filepath): the file is made, or written over
FileSave(folder, path, content) ==
    {e \in folder : e[1] # path} \cup {<<path, content>>}

\* os.remove(filepath)
FileRemove(folder, path) == {e \in folder : e[1] # path}

\* jsonify of a failure, with the status
ErrorResponse(status, error) == [NoResponse EXCEPT !.status = status, !.error = error]

\* api_upload answers a request that it does not take: no 'file' part, no
\* file selected, a type that is not allowed
UploadRejected(t) ==
    /\ uploads[t].at = "idle"
    /\ \/ uploads' = [uploads EXCEPT ![t].at = "responded",
                          ![t].response = ErrorResponse("400", "No file provided")]
       \/ \E name \in UploadNames :
            /\ name = << >>
            /\ uploads' = [uploads EXCEPT ![t].at = "responded", ![t].name = name,
                               ![t].response = ErrorResponse("400", "No file selected")]
       \/ \E name \in UploadNames :
            /\ name # << >>
            /\ FileExt(name) \notin AllowedExtensions
            /\ uploads' = [uploads EXCEPT ![t].at = "responded", ![t].name = name,
                               ![t].ext = FileExt(name),
                               ![t].response = ErrorResponse("400", "Unsupported file type")]
    /\ UNCHANGED <<coreVars, labelVars, concVars, procVars, upload_folder>>

\* api_upload up to file.save(filepath): the file of the request is written
\* to the upload folder under its sanitized name
UploadSave(t) ==
    /\ uploads[t].at = "idle"
    /\ \E name \in UploadNames : \E content \in UploadContents :
        /\ name # << >>
        /\ FileExt(name) \in AllowedExtensions
        /\ uploads' = [uploads EXCEPT ![t].at = "saved", ![t].name = name,
                           ![t].content = content, ![t].ext = FileExt(name),
                           ![t].path = secure_filename(name)]
        /\ upload_folder' = FileSave(upload_folder, secure_filename(name), content)
    /\ UNCHANGED <<coreVars, labelVars, concVars, procVars>>

\* what the try block is to return, or the exception that leaves it: the
\* text read from filepath, the mapping json.load makes of it, or the notice
\* for the other types
Extracted(u, folder) ==
    IF u.ext \notin {EXT_TXT, EXT_JSON}
    THEN [NoResponse EXCEPT !.status = "200", !.filename = u.name,
                            !.text = <<"not yet implemented">>]
    ELSE IF ~FileExists(folder, u.path) THEN ErrorResponse("500", "FileNotFoundError")
    ELSE IF u.ext = EXT_TXT
    THEN [NoResponse EXCEPT !.status = "200", !.filename = u.name,
                            !.text = FileContent(folder, u.path)]
    ELSE LET r == JsonLoad(FileContent(folder, u.path))
         IN  IF r.ok
             THEN [NoResponse EXCEPT !.status = "200", !.filename = u.name,
                                     !.mapping = Some(r.value)]
             ELSE ErrorResponse("500", "JSONDecodeError")

\* the try block of api_upload: open(filepath) and f.read() or json.load(f)
UploadExtract(t) ==
    /\ uploads[t].at = "saved"
    /\ uploads' = [uploads EXCEPT ![t].at = "extracted",
                       ![t].pending = Extracted(uploads[t], upload_folder)]
    /\ UNCHANGED <<coreVars, labelVars, concVars, procVars, upload_folder>>

\* finally: if os.path.exists(filepath); without the file the response of
\* the try block is made
UploadExists(t) ==
    /\ uploads[t].at = "extracted"
    /\ IF FileExists(upload_folder, uploads[t].path)
       THEN uploads' = [uploads EXCEPT ![t].at = "removing"]
       ELSE uploads' = [uploads EXCEPT ![t].at = "responded",
                            ![t].response = uploads[t].pending]
    /\ UNCHANGED <<coreVars, labelVars, concVars, procVars, upload_folder>>

\* finally: os.remove(filepath), then the response of the try block is made;
\* os.remove of a file that is gone raises, and the error is answered
UploadRemove(t) ==
    /\ uploads[t].at = "removing"
    /\ IF FileExists(upload_folder, uploads[t].path)
       THEN /\ upload_folder' = FileRemove(upload_folder, uploads[t].path)
            /\ uploads' = [uploads EXCEPT ![t].at = "responded",
                               ![t].response = uploads[t].pending]
       ELSE /\ uploads' = [uploads EXCEPT ![t].at = "responded",
                               ![t].response = ErrorResponse("500", "FileNotFoundError")]
            /\ UNCHANGED upload_folder
    /\ UNCHANGED <<coreVars, labelVars, concVars, procVars>>

\* the client has the response; the thread serves the next request
UploadResponded(t) ==
    /\ uploads[t].at = "responded"
    /\ uploads' = [uploads EXCEPT ![t] = IdleUpload]
    /\ UNCHANGED <<coreVars, labelVars, concVars, procVars, upload_folder>>

InitUpload == Init /\ cls = "Anonymizer"

NextUpload ==
    \E t \in Threads :
        \/ UploadRejected(t)
        \/ UploadSave(t)
        \/ UploadExtract(t)
        \/ UploadExists(t)
        \/ UploadRemove(t)
        \/ UploadResponded(t)

SpecUpload == InitUpload /\ [][NextUpload]_vars

-----------------------------------------------------------------------------
(* Properties *)

Range(s) == {s[i] : i \in 1..Len(s)}

\* an anonymization call has returned and its results are at hand
Anonymized == pc \in {"anonymized", "restoring", "done"}

\* the spans of the last call in the order they were substituted; assigned[i]
\* is the placeholder of IterSpans[i]
IterSpans == IterationOrder(cls, all_spans)

\* the original substring of the i-th substituted span
Original(i) == Slice(file, IterSpans[i].start, IterSpans[i].end)

\* the normalized label of the i-th substituted span
BaseOf(i) == BaseLabel(label_mapping(cls), IterSpans[i].label)

\* the 1-based positions at which t occurs in s
Occurrences(s, t) == {i \in 1..Len(s) : OccursAt(s, i, t)}

\* C1: round trip: deanonymize applied to the anonymized text and the
\* original -> placeholder table of the same run returns the document.
C1_RoundTrip == (pc = "done") => (result = file)

\* C2: every placeholder the anonymizer emits has the shape the reversal
\* engine scans for: "[", upper-case letters, digits, "]" and nothing else.
C2_PlaceholderShape ==
    \A i \in 1..Len(assigned) : MatchAt(assigned[i], 1) = Len(assigned[i])

\* C3: idempotent repeats: the spans with one original substring all get one
\* placeholder, and the table holds exactly one entry for that substring.
C3_IdempotentRepeats ==
    Anonymized =>
        \A i \in 1..Len(assigned) :
            /\ \A j \in 1..Len(assigned) :
                   Original(i) = Original(j) => assigned[i] = assigned[j]
            /\ Cardinality({k \in 1..Len(mapping) : mapping[k][1] = Original(i)}) = 1

\* the substituted spans, left to right
SubstitutedAscending == IF cls = "Anonymizer" THEN all_spans ELSE Reverse(all_spans)

\* C4: disjointness: the substituted spans are sorted ascending by start and
\* pairwise non-overlapping: each ends where the next one starts or before.
C4_Disjointness ==
    \A i \in 1..(Len(SubstitutedAscending) - 1) :
        SubstitutedAscending[i].end <= SubstitutedAscending[i + 1].start

\* the document with every character inside a substituted span marked
MarkSpans ==
    [p \in 1..Len(file) |->
        IF \E i \in 1..Len(all_spans) :
               all_spans[i].start <= p - 1 /\ p - 1 < all_spans[i].end
        THEN "#" ELSE file[p]]

\* s with every occurrence of the placeholders P marked
RECURSIVE MarkAll(_, _)
MarkAll(s, P) ==
    IF P = {} THEN s
    ELSE LET t == CHOOSE t \in P : TRUE
         IN  MarkAll(Replace(s, t, <<"#">>), P \ {t})

\* s with each run of marks reduced to one mark
Collapse(s) ==
    LET keep == {i \in 1..Len(s) : ~(s[i] = "#" /\ i > 1 /\ s[i - 1] = "#")}
        nth(k) == CHOOSE i \in keep : Cardinality({j \in keep : j < i}) = k - 1
    IN  [k \in 1..Cardinality(keep) |-> s[nth(k)]]

\* C5: the untouched text is preserved: the anonymized text is the document
\* with each substituted stretch replaced by placeholders and nothing else;
\* the characters outside the spans stand verbatim, in order.
C5_UntouchedPreserved ==
    Anonymized =>
        Collapse(MarkAll(anonymized_doc, Range(assigned))) = Collapse(MarkSpans)

\* the simultaneous substitution: one scan of text, each placeholder-shaped
\* token with an entry in rev replaced by it, everything else copied
RECURSIVE SimSubstFrom(_, _, _)
SimSubstFrom(text, i, rev) ==
    IF i > Len(text) THEN << >>
    ELSE LET m == MatchAt(text, i)
             token == Slice(text, i - 1, i - 1 + m)
         IN  IF m > 0
             THEN (IF token \in DOMAIN rev THEN rev[token] ELSE token)
                      \o SimSubstFrom(text, i + m, rev)
             ELSE <<text[i]>> \o SimSubstFrom(text, i + 1, rev)

\* C6: reversal is a simultaneous substitution: the text returned is the text
\* given with every occurrence of a mapped placeholder replaced by its
\* original; an original is inserted verbatim and not substituted again.
C6_Simultaneous ==
    (pc = "done") => (result = SimSubstFrom(d_text, 1, reverse_mapping(d_mapping)))

\* C7: boundary disambiguation: an iteration that restores one placeholder
\* leaves every occurrence of every other placeholder-shaped token as it was
\* ([A10] when [A1] is restored, in either order): the token stands in the
\* new result where the replacements before it have moved it.
C7_Boundary ==
    [][(pc = "restoring" /\ placeholders # << >>) =>
          LET p == Head(placeholders)
              rev == reverse_mapping(d_mapping)
              delta == IF p \in DOMAIN rev THEN Len(rev[p]) - Len(p) ELSE 0
          IN  \A i \in 1..Len(result) :
                  LET m == MatchAt(result, i)
                      token == Slice(result, i - 1, i - 1 + m)
                      j == i + delta * Cardinality({k \in Occurrences(result, p) : k < i})
                  IN  (m > 0 /\ token # p) => Slice(result', j - 1, j - 1 + m) = token
      ]_vars

\* [A1] and [A10] in one text, both mapped, are restored as "x" and "y"
C7_Witness ==
    /\ pc = "done"
    /\ d_text = T_A1 \o <<"x">> \o T_A10
    /\ d_mapping = << <<<<"x">>, T_A1>>, <<<<"y">>, T_A10>> >>
    /\ result = <<"x", "x", "y">>

Kept(x) == \E i \in 1..Len(all_spans) : all_spans[i] = x

\* C9 as claimed: of two candidate spans that start at one offset the longer
\* is kept and the shorter discarded, whichever detector reported them.
C9_LongestKept ==
    (cls = "Anonymizer" /\ Anonymized) =>
        \A a \in Range(custom_spans) \cup Range(ents) :
            \A b \in Range(custom_spans) \cup Range(ents) :
                (a.start = b.start /\ a.end > b.end) => (Kept(a) /\ ~Kept(b))

\* C9 amended: of a pattern span and an entity span that start at one offset
\* the pattern span is kept and the entity span discarded, whichever is
\* longer.
C9_PatternKept ==
    (cls = "Anonymizer" /\ Anonymized) =>
        \A a \in Range(custom_spans) : \A b \in Range(ents) :
            a.start = b.start => (Kept(a) /\ ~Kept(b))

\* a pattern span was kept over a longer entity span with the same start
C9_Witness ==
    /\ pc = "anonymized"
    /\ cls = "Anonymizer"
    /\ \E a \in Range(custom_spans) : \E b \in Range(ents) :
           a.start = b.start /\ b.end > a.end /\ Kept(a) /\ ~Kept(b)

\* the normalized labels of the substituted spans
Bases == {BaseOf(i) : i \in 1..Len(assigned)}

\* the number of placeholders minted for a normalized label
Minted(base) == Cardinality({i \in 1..Len(assigned) : BaseOf(i) = base})

\* the ordinals of the placeholders minted for a normalized label
OrdinalsOf(base) ==
    {n \in 1..Sum(entity_counters) :
        \E i \in 1..Len(assigned) :
            BaseOf(i) = base /\ assigned[i] = Placeholder(base, n)}

\* the count of a normalized label when the substitution loop began
CarriedIn(base) == IF base \in DOMAIN start_counters THEN start_counters[base] ELSE 0

\* C10 as claimed: within one call the ordinals of each normalized label are
\* exactly 1..k, k the number of placeholders minted for the label.
C10_OrdinalsFromOne ==
    Anonymized => \A base \in Bases : OrdinalsOf(base) = 1..Minted(base)

\* C10 amended: within one call the ordinals of each normalized label are
\* exactly c+1..c+k, c the count of the label when the loop began (0 when the
\* call reset the counters) and k the number of placeholders minted for it;
\* no two substitutions of the call share a placeholder.
C10_OrdinalsConsecutive ==
    Anonymized =>
        /\ \A base \in Bases :
               OrdinalsOf(base) = (CarriedIn(base) + 1)..(CarriedIn(base) + Minted(base))
        /\ \A i \in 1..Len(assigned) : \A j \in 1..Len(assigned) :
               i # j => assigned[i] # assigned[j]

\* a call that kept the counters of an earlier call minted two placeholders
\* of one label
C10_Witness ==
    /\ pc = "anonymized"
    /\ \E base \in Bases : CarriedIn(base) >= 1 /\ Minted(base) >= 2

\* the ordinal in the placeholder of the i-th substituted span
OrdinalOf(i) ==
    CHOOSE n \in 1..Sum(entity_counters) : assigned[i] = Placeholder(BaseOf(i), n)

\* C11: placeholders are allocated in document order: of two substituted
\* spans of one normalized label the one that starts first has the smaller
\* ordinal, and the leftmost span of a label has the first ordinal of the call.
C11_DocumentOrder ==
    Anonymized =>
        \A i \in 1..Len(assigned) : \A j \in 1..Len(assigned) :
            (BaseOf(i) = BaseOf(j) /\ IterSpans[i].start < IterSpans[j].start)
                => OrdinalOf(i) < OrdinalOf(j)

\* what a fresh instance makes of the document and spans of the last call
FreshRun == SubstituteLoop(label_mapping(cls), IterSpans, 1, << >>, file, << >>)

\* C14: counters are per call: whatever calls the instance served before, a
\* call that resets the counters (anonymize_data; anonymize_text with
\* reset_counters=True) returns the text, with the placeholders, that a fresh
\* instance returns for the same document and spans.
C14_CountersPerCall ==
    (Anonymized /\ reset_arg) =>
        /\ anonymized_doc = FreshRun.doc
        /\ assigned = FreshRun.placed

\* a resetting call minted a placeholder of a label the instance had counted
\* in an earlier call
C14_Witness ==
    /\ pc = "anonymized"
    /\ reset_arg
    /\ \E i \in 1..Len(assigned) : BaseOf(i) \in DOMAIN prior_counters

\* C16: detector failure is isolated: when the NER model raises an error the
\* call still completes, with the spans of the pattern detectors substituted.
C16_DetectorIsolated ==
    nlp_raised =>
        /\ outcome \in {"returned", "200"}
        /\ \A x \in Range(custom_spans) : Kept(x)

\* the last call was given the empty document and its detectors reported no span
EmptyDocumentCall ==
    /\ pc \in {"anonymized", "failed"}
    /\ file = << >>
    /\ ~nlp_raised
    /\ outcome # "400: Missing text parameter"

\* C19 as claimed: through every entry point the empty document is anonymized
\* without error, to the empty text and the empty table.
C19_EmptyInput ==
    EmptyDocumentCall =>
        /\ outcome \in {"returned", "200"}
        /\ anonymized_doc = << >>
        /\ mapping = << >>

\* C19 amended: anonymize_data and anonymize_text return the empty text for
\* the empty document, with no placeholder minted and no error; POST
\* /api/anonymize answers a text that is empty or whitespace only with
\* status 400, "Text cannot be empty".
C19_EmptyInputByEntry ==
    /\ EmptyDocumentCall =>
           IF entry = "api_anonymize"
           THEN outcome = "400: Text cannot be empty"
           ELSE /\ outcome = "returned"
                /\ anonymized_doc = << >>
                /\ assigned = << >>
                /\ mapping = << >>
    /\ (entry = "api_anonymize" /\ Strip(file) = << >> /\ outcome # "400: Missing text parameter")
           => outcome = "400: Text cannot be empty"

\* the empty document went through an anonymizer and came back empty
C19_Witness ==
    /\ pc = "anonymized"
    /\ entry \in {"anonymize_data", "anonymize_text"}
    /\ file = << >>
    /\ outcome = "returned"
    /\ anonymized_doc = << >>

\* C17: label normalization is injective: two distinct detector labels,
\* listed in label_mapping or passed through unchanged, never get one
\* normalized label, so never one placeholder prefix and counter.
C17_NormalizationInjective ==
    (labels_seen # << >> /\ labels_seen[1] # labels_seen[2])
        => bases_made[1] # bases_made[2]

\* a listed label that is renamed (GPE to LOCATION) met an unlisted label
\* that is passed through (LOC)
C17_Witness ==
    /\ cls = "Anonymizer"
    /\ labels_seen = << <<"G","P","E">>, <<"L","O","C">> >>
    /\ bases_made = << <<"L","O","C","A","T","I","O","N">>, <<"L","O","C">> >>

\* what anonymize_data returns for file f, the detectors reporting T, when
\* no other call runs on the instance
AloneDoc(f, T) ==
    LET custom == CustomList(T)
        sorted == SortByStart(custom \o ent_spans(custom, LabelList(T), EntList(T)))
    IN  SubstituteLoop(label_mapping("Anonymizer"), Reverse(sorted), 1, << >>, f, << >>).doc

\* C13: no hidden shared state under concurrency: a call that runs
\* concurrently with another call on the same instance, their steps
\* interleaved in any way, returns what it returns when it runs alone.
C13_NoInterference ==
    \A t \in Threads :
        threads[t].at = "done" => threads[t].doc = AloneDoc(threads[t].file, threads[t].T)

\* C12: the explicit mapping is the only input of reversal: deanonymize_text
\* and quick_deanonymize given a mapping, the empty one included, return
\* deanonymize(text, that mapping), whatever the processor and the files hold.
C12_ExplicitMapping ==
    (call.op \in {"deanonymize_text", "quick_deanonymize"} /\ call.mapping # None) =>
        /\ ret.kind = "returned"
        /\ ret.value = deanonymize(call.text, call.mapping[1])

\* the file is absent or does not hold valid JSON
Unreadable(filename) == fs[filename] = None \/ ~JsonLoad(fs[filename][1]).ok

\* the last call was told to read its mapping from a file
ReadsMappingFile ==
    \/ call.op \in {"deanonymize_from_files", "load_mapping"}
    \/ call.op = "deanonymize_text" /\ call.mapping = None /\ call.mapping_file # None

\* C15: a missing or corrupt mapping file is an explicit failure: a call told
\* to read its mapping from a file that is absent or not valid JSON raises
\* an error, which is not the "No mapping provided" error, and does not
\* return as a reversal that resolved nothing does.
C15_MissingMappingFails ==
    (ReadsMappingFile /\ Unreadable(call.mapping_file[1])) =>
        /\ ret.kind = "raised"
        /\ ret.exc \in {"FileNotFoundError", "JSONDecodeError"}

\* C18: mapping persistence round-trips: load_mapping of a file returns the
\* table save_mapping wrote there, and process_web_llm_workflow restores the
\* response with the mapping that anonymizing the original text produced.
C18_PersistenceRoundTrip ==
    /\ (call.op = "load_mapping" /\ saved[call.mapping_file[1]] # None) =>
           /\ ret.kind = "returned"
           /\ ret.value = saved[call.mapping_file[1]][1]
    /\ call.op = "process_web_llm_workflow" =>
           /\ ret.kind = "returned"
           /\ ret.value[2] = deanonymize(call.response, current_mapping[1])

\* a table of two entries, one with a quote, a backslash and a character
\* outside ASCII in its key, was saved and loaded
C18_Witness ==
    /\ call.op = "load_mapping"
    /\ saved[call.mapping_file[1]] = Some(<< <<K_SPECIAL, T_B1>>, <<<<"x">>, T_A1>> >>)
    /\ ret.kind = "returned"
    /\ ret.value = << <<K_SPECIAL, T_B1>>, <<<<"x">>, T_A1>> >>

\* the mapping deanonymize_text is claimed to use: the first of the mapping
\* argument, the mapping_file argument, current_mapping and the stored
\* mapping_file that is not None
ClaimedSelection ==
    IF call.mapping # None
    THEN [kind |-> "returned", exc |-> "", value |-> call.mapping[1], printed |-> << >>]
    ELSE IF call.mapping_file # None THEN load_mapping(fs, call.mapping_file[1])
    ELSE IF current_mapping # None
    THEN [kind |-> "returned", exc |-> "", value |-> current_mapping[1], printed |-> << >>]
    ELSE IF mapping_file # None THEN load_mapping(fs, mapping_file[1])
    ELSE [kind |-> "raised", exc |-> "ValueError", value |-> << >>, printed |-> << >>]

\* C20: deanonymize_text takes its mapping in a fixed precedence: the mapping
\* argument, else the mapping_file argument, else current_mapping, else the
\* stored mapping_file; it raises ValueError exactly when all four are None.
C20_Precedence ==
    call.op = "deanonymize_text" =>
        /\ ret.kind = ClaimedSelection.kind
        /\ ret.exc = ClaimedSelection.exc
        /\ ret.kind = "returned" => ret.value = deanonymize(call.text, ClaimedSelection.value)
        /\ (ret.kind = "raised" /\ ret.exc = "ValueError")
               <=> (call.mapping = None /\ call.mapping_file = None
                        /\ current_mapping = None /\ mapping_file = None)

-----------------------------------------------------------------------------
\* C21: once an anonymize_text call on the processor has completed,
\* deanonymize_text with no mapping arguments does not raise and restores
\* with the mapping of the most recent anonymize_text call, also when that
\* mapping is empty and when cleanup_mapping_file was called in between.
C21_SessionMapping ==
    (/\ call.op = "deanonymize_text"
     /\ call.mapping = None
     /\ call.mapping_file = None
     /\ current_mapping # None)
        => /\ ret.kind = "returned"
           /\ ret.value = deanonymize(call.text, current_mapping[1])

-----------------------------------------------------------------------------
\* a and b share a character: half-open intervals, touching spans do not
HalfOpenOverlap(a, b) == a.start < b.end /\ b.start < a.end

\* C22: pattern spans have priority over entity spans: an entity span is
\* substituted if and only if it overlaps (half-open test, symmetric,
\* adjacent spans not overlapping) no pattern span and no protected label
\* span; every pattern span is substituted.
C22_PatternPriority ==
    (cls = "Anonymizer" /\ pc = "anonymized") =>
        /\ \A e \in Range(ents) :
               Kept(e) <=> \A c \in Range(custom_spans) \cup Range(label_spans) :
                              ~HalfOpenOverlap(e, c) /\ ~HalfOpenOverlap(c, e)
        /\ \A c \in Range(custom_spans) : Kept(c)
        /\ Len(assigned) = Len(all_spans)

\* an entity span that touches a pattern span was substituted, and so was
\* the pattern span
C22_Witness ==
    /\ pc = "anonymized"
    /\ cls = "Anonymizer"
    /\ Len(assigned) = 2
    /\ \E e \in Range(ents) : \E c \in Range(custom_spans) :
           /\ e.end = c.start \/ c.end = e.start
           /\ Kept(e)
           /\ Kept(c)

-----------------------------------------------------------------------------
\* C23: of upload requests served concurrently each successful response
\* holds the text or the mapping of the file of its own request, also when
\* the sanitized names of the requests are the same, and no request fails
\* because another removed its temporary file.
C23_UploadIsolation ==
    \A t \in Threads :
        uploads[t].at = "responded" =>
            /\ (uploads[t].response.status = "200" /\ uploads[t].ext = EXT_TXT)
                   => uploads[t].response.text = uploads[t].content
            /\ (uploads[t].response.status = "200" /\ uploads[t].ext = EXT_JSON)
                   => uploads[t].response.mapping = Some(JsonLoad(uploads[t].content).value)
            /\ uploads[t].response.error # "FileNotFoundError"

====
